---- MODULE Spec2Model ----
(***************************************************************************)
(* Model of SyntheticDataGenerator.generate_correlated_vm_data             *)
(* (src/app.py), the correlated VM metrics / application log generator.    *)
(*                                                                         *)
(* Units.  Timestamps are seconds.  Percentages and the other float        *)
(* columns are integers in units of 0.0001 (12.34 % is 123400), so that    *)
(* round(x, 2) is a real operation on them.  available_memory_bytes is in  *)
(* units of 10^6 bytes (TLC integers are 32 bit).                          *)
(*                                                                         *)
(* Randomness.  Every call of the random module is a nondeterministic      *)
(* choice.  random.random() yields u in 0..9999 (units of 0.0001);         *)
(* random.uniform(a, b) is a + (b - a) * random(), as in CPython;          *)
(* random.choice(seq) draws an index of seq.  The variable env fixes, for  *)
(* one behaviour, the arguments callers pass and which points of each      *)
(* distribution are enumerated.                                            *)
(*                                                                         *)
(* Columns whose values are independent draws that no branch reads         *)
(* (process_id, ports, IPs, ids, user_agent, response_time_ms, packet and  *)
(* process counts, the numbers embedded in message templates) are left     *)
(* out of the rows.                                                        *)
(***************************************************************************)
EXTENDS Integers, Sequences, FiniteSets, TLC

\* ------------------------------------------------------------------ bounds
\* Largest num_records passed in the long single-host runs.
MaxRecords == 11
\* Largest num_records passed in the runs that enumerate the row contents.
MaxDetail == 2
\* Calls one session makes one after another.
MaxRuns == 2

\* --------------------------------------------------------- program constants
\* timedelta(hours=24), in seconds.
Day == 86400
\* timedelta(minutes=5) and the divisor of elapsed_intervals, in seconds.
TickSeconds == 300
\* The Python value None (incident_start, error_code).
None == -1

Sessions == {1, 2}

Scenarios == {"performance_issues", "normal_operations", "mixed_scenarios"}

vm_hosts ==
  << "vm-web-01", "vm-web-02", "vm-api-01", "vm-api-02", "vm-db-01", "vm-db-02",
     "vm-cache-01", "vm-worker-01", "vm-worker-02", "vm-monitoring-01",
     "vm-monitoring-02" >>

services_by_host ==
  [h \in {vm_hosts[k] : k \in 1..Len(vm_hosts)} |->
     CASE h \in {"vm-web-01", "vm-web-02"} -> << "nginx", "php-fpm", "redis" >>
       [] h \in {"vm-api-01", "vm-api-02"} -> << "java", "tomcat", "mysql-client" >>
       [] h \in {"vm-db-01", "vm-db-02"} -> << "mysql", "mysqld_safe", "backup-agent" >>
       [] h = "vm-cache-01" -> << "redis", "redis-sentinel", "monitoring" >>
       [] h \in {"vm-worker-01", "vm-worker-02"} -> << "python", "celery", "rabbitmq" >>
       [] OTHER -> << "prometheus", "grafana", "alertmanager" >>]

\* Variant: the lookup misses and yields the default.
ServicesOfDefault(h) == << "unknown-service" >>

\* services_by_host.get(hostname, ['unknown-service'])
ServicesOf(h) ==
  IF h \in DOMAIN services_by_host THEN services_by_host[h] ELSE << "unknown-service" >>

\* The keys of the error_messages and normal_messages dictionaries.
CatalogServices == {"nginx", "mysql", "java", "redis"}

ErrorLevels == << "ERROR", "WARN", "CRIT" >>
NormalLevels == << "INFO", "DEBUG" >>

\* ------------------------------------------------------------ arithmetic
Min(a, b) == IF a < b THEN a ELSE b
Max(a, b) == IF a > b THEN a ELSE b

\* x / k rounded to the nearest integer, ties to even (Python's round).
RoundDiv(x, k) ==
  LET q == x \div k
      r == x % k
  IN IF 2 * r < k THEN q
     ELSE IF 2 * r > k THEN q + 1
     ELSE IF q % 2 = 0 THEN q ELSE q + 1

\* round(x, 2) of a value in units of 0.0001, in the same units.
Round2(x) == 100 * RoundDiv(x, 100)

\* round(x / k, 2) of a value in units of 0.0001, in the same units.
Round2Div(x, k) == 100 * RoundDiv(x, 100 * k)

\* ------------------------------------------------------------ random source
\* The points of a..b that a behaviour enumerates for one kind of draw.
Pts(kind, a, b) ==
  CASE kind = "lo" -> {a}
    [] kind = "hi" -> {b}
    [] kind = "ends" -> {a, b}
    [] kind = "edge" -> {999, 1000, 3999, 4000} \cap (a..b)
    [] kind = "fine" -> {124, 125, 126} \cap (a..b)
    [] OTHER -> a..b

\* random.random(), in units of 0.0001.
Random(kind) == Pts(kind, 0, 9999)

\* random.uniform(a, b) for the draw u of random.random(), in units of 0.0001.
Uniform(a, b, u) == a * 10000 + (b - a) * u

\* random.randint(a, b)
RandInt(kind, a, b) == Pts(kind, a, b)

\* random.choice(seq): the index drawn.
Choice(seq, idx) == idx \cap (1..Len(seq))

\* A draw that the code makes only on one branch.
DrawIf(made, S) == IF made THEN S ELSE {0}

VARIABLES
  env,                \* arguments passed and points drawn in this behaviour
  rng,                \* the random module: seeding mode, recorded draws, position
  pc,                 \* per session: "idle", "tick" (loop head), "logs" (inner
                      \* loop), "display" (main, after the generation section)
  runs,               \* per session: calls started so far
  num_records,        \* argument
  correlation_type,   \* argument
  base_time,          \* local: datetime.now() - timedelta(hours=24)
  timestamps,         \* local list
  i,                  \* index of the enumerate loop
  hostname,           \* host of the current tick
  host_states,        \* per frame: the host_states dictionary
  error_likely,       \* local flag of the current tick
  log_entries_count,  \* local
  log_idx,            \* index of the inner loop
  vm_metrics_data,    \* local list of metrics rows
  app_logs_data,      \* local list of log rows
  log_tick,           \* history: tick index at which each log row was made
  writer,             \* history: per frame and host, the call that made the state
  incidents,          \* history: incident start and stop events of the call
  returned,           \* per session: the values returned by its finished calls
  session_state,      \* per session: st.session_state, a dictionary
  export_format,      \* per session: the Export Format selectbox in this script run
  files,              \* per session: the dictionary create_download_files returned
  failed,             \* history: per session, the calls that raised
  route               \* per session: the branch the routing took in this script run

vars ==
  << env, rng, pc, runs, num_records, correlation_type, base_time, timestamps, i,
     hostname, host_states, error_likely, log_entries_count, log_idx, vm_metrics_data,
     app_logs_data, log_tick, writer, incidents, returned, session_state,
     export_format, files, failed, route >>

\* What main keeps between the generation section and the download section.
page == << session_state, files, failed, route >>

frame ==
  << num_records, correlation_type, base_time, timestamps, i, hostname,
     error_likely, log_entries_count, log_idx, vm_metrics_data, app_logs_data, log_tick,
     incidents >>

EmptyMap == [h \in {} |-> 0]

\* ---------------------------------------------------------------- the code

\* Variant: the dictionary lives in one place shared by all calls.
FrameOfShared(s) == 1

\* host_states is a local of the call: each call has its own dictionary.
FrameOf(s) == s

\* Variant: the dictionary of the previous call is kept.
NewHostStatesKept(old) == old

\* Variant: a state is made for every host at the start of the call.
NewHostStatesEager(old) ==
  [h \in {vm_hosts[k] : k \in 1..Len(vm_hosts)} |->
     [ base_cpu |-> 100000, base_memory |-> 400000, incident_mode |-> FALSE,
       incident_start |-> None, incident_duration |-> 0 ]]

\* host_states = {}
NewHostStates(old) == EmptyMap

\* Variant: current_time is not advanced.
TimestampsNoAdvance(current_time, n) == [k \in 1..n |-> current_time]

\* The for loop that fills timestamps from base_time.
RECURSIVE Timestamps(_, _)
Timestamps(current_time, n) ==
  IF n <= 0 THEN << >>
  ELSE << current_time >> \o Timestamps(current_time + TickSeconds, n - 1)

\* The dictionary stored for a host on its first selection.
NewHostState(ub, um) ==
  [ base_cpu |-> Uniform(10, 30, ub),
    base_memory |-> Uniform(40, 70, um),
    incident_mode |-> FALSE,
    incident_start |-> None,
    incident_duration |-> 0 ]

\* Variant: the incident logic also runs under mixed_scenarios.
IncidentScenarioMixed(scenario) ==
  scenario \in {"performance_issues", "mixed_scenarios"}

\* Variant: the incident logic also runs under normal_operations.
IncidentScenarioAny(scenario) ==
  scenario \in {"performance_issues", "normal_operations"}

\* The scenario test that guards the incident logic.
IncidentScenario(scenario) == scenario = "performance_issues"

\* not host_state['incident_mode'] (the left operand of the start test)
MayStart(scenario, hs) == IncidentScenario(scenario) /\ ~hs.incident_mode

\* random.random() < 0.1
StartDrawn(uc) == uc < 1000

\* Variant: a lower bound too small.
IncidentDurationFrom1(kind) == RandInt(kind, 1, 9)

\* random.randint(3, 9)
IncidentDuration(kind) == RandInt(kind, 3, 9)

\* Variant: incident_start is not set.
StartIncidentUnstamped(hs, timestamp, d) ==
  [hs EXCEPT !.incident_mode = TRUE, !.incident_duration = d]

\* "if not incident_mode and random.random() < 0.1": the incident starts.
StartIncident(hs, timestamp, d) ==
  [hs EXCEPT !.incident_mode = TRUE,
             !.incident_start = timestamp,
             !.incident_duration = d]

\* Variant: > in place of >=.
IncidentOverLate(hs, timestamp) ==
  (timestamp - hs.incident_start) > TickSeconds * hs.incident_duration

\* elapsed_intervals >= incident_duration, elapsed_intervals being
\* (timestamp - incident_start).total_seconds() / 300
IncidentOver(hs, timestamp) ==
  (timestamp - hs.incident_start) >= TickSeconds * hs.incident_duration

\* Variant: the end check is missing.
EndIncidentNever(hs, timestamp) == hs

\* "Check if incident should end"
EndIncident(hs, timestamp) ==
  IF hs.incident_mode /\ IncidentOver(hs, timestamp)
  THEN [hs EXCEPT !.incident_mode = FALSE]
  ELSE hs

\* Variant: all hosts share one dictionary object as their state.
SetHostStateShared(old, hn, hs) == [h \in DOMAIN old \cup {hn} |-> hs]

\* host_states[hostname] = {...} and the updates of host_state, which is that
\* dictionary entry itself: the entry of the selected host is what the tick
\* made of it.
SetHostState(old, hn, hs) ==
  [h \in DOMAIN old \cup {hn} |-> IF h = hn THEN hs ELSE old[h]]

\* Variant: the end check comes before the start check.
IncidentLogicEndFirst(scenario, hs, timestamp, uc, d) ==
  IF IncidentScenario(scenario)
  THEN LET ended == EndIncident(hs, timestamp)
       IN IF ~ended.incident_mode /\ StartDrawn(uc)
          THEN StartIncident(ended, timestamp, d)
          ELSE ended
  ELSE hs

\* The whole "if correlation_type == 'performance_issues'" block.
IncidentLogic(scenario, hs, timestamp, uc, d) ==
  IF IncidentScenario(scenario)
  THEN EndIncident(IF MayStart(scenario, hs) /\ StartDrawn(uc)
                   THEN StartIncident(hs, timestamp, d)
                   ELSE hs,
                   timestamp)
  ELSE hs

\* Variant: the cap is missing.
IncidentCapNone(x) == x

\* min(95, ...) of the high load branch.
IncidentCap(x) == Min(950000, x)

\* Variant: the high load branch draws its disk writes from the normal range.
MetricDrawsMixed(incident_mode) ==
  IF incident_mode
  THEN [ cpu : Random(env.unit), mem : Random(env.unit),
         disk_read : RandInt(env.io, 500, 2000),
         disk_write : RandInt(env.io, 5, 100),
         net_in : Random(env.net), net_out : Random(env.net),
         avail : RandInt(env.io, 500, 2000),
         disk_usage : Random(env.net) ]
  ELSE [ cpu : Random(env.unit), mem : Random(env.unit),
         disk_read : RandInt(env.io, 10, 200),
         disk_write : RandInt(env.io, 5, 100),
         net_in : Random(env.net), net_out : Random(env.net),
         avail : RandInt(env.io, 4000, 8000),
         disk_usage : Random(env.net) ]

\* The draws of the metrics branch taken, as the values drawn.
MetricDraws(incident_mode) ==
  IF incident_mode
  THEN [ cpu : Random(env.unit), mem : Random(env.unit),
         disk_read : RandInt(env.io, 500, 2000),
         disk_write : RandInt(env.io, 200, 800),
         net_in : Random(env.net), net_out : Random(env.net),
         avail : RandInt(env.io, 500, 2000),
         disk_usage : Random(env.net) ]
  ELSE [ cpu : Random(env.unit), mem : Random(env.unit),
         disk_read : RandInt(env.io, 10, 200),
         disk_write : RandInt(env.io, 5, 100),
         net_in : Random(env.net), net_out : Random(env.net),
         avail : RandInt(env.io, 4000, 8000),
         disk_usage : Random(env.net) ]

\* cpu_percent of the branch taken.
CpuPercent(hs, m) ==
  IF hs.incident_mode
  THEN IncidentCap(hs.base_cpu + Uniform(40, 60, m.cpu))
  ELSE hs.base_cpu + Uniform(-5, 15, m.cpu)

\* memory_percent of the branch taken.
MemoryPercent(hs, m) ==
  IF hs.incident_mode
  THEN IncidentCap(hs.base_memory + Uniform(20, 40, m.mem))
  ELSE hs.base_memory + Uniform(-10, 15, m.mem)

\* max(0, min(100, x))
Clamp(x) == Max(0, Min(1000000, x))

\* Variant: the division is missing.
LoadAverageUnscaled(cpu_percent, k) == Round2(cpu_percent)

\* round(cpu_percent / k, 2), of the unrounded cpu_percent
LoadAverage(cpu_percent, k) == Round2Div(cpu_percent, k)

\* Variant: the record is appended twice.
AppendRowTwice(rows, row) == Append(Append(rows, row), row)

\* Variant: the record is inserted at the head of the list.
AppendRowAtHead(rows, row) == << row >> \o rows

\* vm_metrics_data.append(vm_record), app_logs_data.append(log_record)
AppendRow(rows, row) == Append(rows, row)

\* vm_record
VmRecord(timestamp, hn, hs, m) ==
  LET cpu_percent == CpuPercent(hs, m)
      memory_percent == MemoryPercent(hs, m)
  IN [ timestamp |-> timestamp,
       hostname |-> hn,
       cpu_usage_percent |-> Round2(Clamp(cpu_percent)),
       memory_usage_percent |-> Round2(Clamp(memory_percent)),
       available_memory_bytes |-> m.avail,
       available_memory_percentage |-> Round2(1000000 - memory_percent),
       disk_read_operations |-> m.disk_read,
       disk_write_operations |-> m.disk_write,
       network_in_mbps |->
         Round2(IF hs.incident_mode THEN Uniform(50, 200, m.net_in)
                ELSE Uniform(5, 50, m.net_in)),
       network_out_mbps |->
         Round2(IF hs.incident_mode THEN Uniform(30, 150, m.net_out)
                ELSE Uniform(3, 30, m.net_out)),
       disk_usage_percent |-> Round2(Uniform(30, 85, m.disk_usage)),
       load_average_1min |-> LoadAverage(cpu_percent, 25),
       load_average_5min |-> LoadAverage(cpu_percent, 30) ]

\* Variant: an upper bound one too large.
LogEntriesCountSix(kind) == RandInt(kind, 1, 6)

\* random.randint(1, 5)
LogEntriesCount(kind) == RandInt(kind, 1, 5)

\* The draws of one tick in the order the code makes them.
\* Each draw is the place that makes it and the value drawn.
TickDraws(hk, fresh, ub, um, tries, uc, starts, d, m, n) ==
  << << "hostname", hk >> >>
    \o (IF fresh THEN << << "base_cpu", ub >>, << "base_memory", um >> >> ELSE << >>)
    \o (IF tries THEN << << "start", uc >> >> ELSE << >>)
    \o (IF starts THEN << << "incident_duration", d >> >> ELSE << >>)
    \o << << "cpu_percent", m.cpu >>, << "memory_percent", m.mem >>,
          << "disk_read_ops", m.disk_read >>, << "disk_write_ops", m.disk_write >>,
          << "network_in", m.net_in >>, << "network_out", m.net_out >>,
          << "available_memory_bytes", m.avail >>,
          << "disk_usage_percent", m.disk_usage >>, << "log_entries_count", n >> >>

\* The random module consumes draws: unseeded it yields anything; after
\* random.seed it records what it yields; reseeded with the same seed it yields
\* the recorded values again, to the same sequence of requests.  A request
\* that differs from the recorded one, or lies past the recording, yields
\* anything.
RngStep(draws) ==
  CASE rng.mode = "os" -> rng' = rng
    [] rng.mode = "record" -> rng' = [rng EXCEPT !.tape = @ \o draws]
    [] OTHER ->
         /\ \A j \in 1..Len(draws) :
              (/\ rng.pos + j - 1 <= Len(rng.tape)
               /\ rng.tape[rng.pos + j - 1][1] = draws[j][1])
                => draws[j][2] = rng.tape[rng.pos + j - 1][2]
         /\ rng' = [rng EXCEPT !.pos = @ + Len(draws)]

\* Variant: the application page is the default.
ShowAppDefaultTrue(ss) ==
  IF "show_app" \in DOMAIN ss THEN ss
  ELSE [k \in DOMAIN ss \cup {"show_app"} |-> IF k = "show_app" THEN TRUE ELSE ss[k]]

\* "if 'show_app' not in st.session_state: st.session_state.show_app = False"
ShowAppDefault(ss) ==
  IF "show_app" \in DOMAIN ss THEN ss
  ELSE [k \in DOMAIN ss \cup {"show_app"} |-> IF k = "show_app" THEN FALSE ELSE ss[k]]

\* "Route between landing page and main app", at the top of every script run:
\* the landing page, or the Back to Home button; a press of the button sets
\* show_app to False and runs the script again, which then takes the landing
\* branch.  The value is the session state and the branch taken last.
Routed(ss, back_pressed) ==
  LET ss0 == ShowAppDefault(ss)
  IN IF ~ss0["show_app"] THEN [state |-> ss0, branch |-> "landing"]
     ELSE IF back_pressed
          THEN [state |-> [ss0 EXCEPT !["show_app"] = FALSE], branch |-> "landing"]
          ELSE [state |-> ss0, branch |-> "back_to_home"]

\* A script run of main with the generate button pressed and data type
\* "Correlated VM Data", from the widgets to the entry of
\* generate_correlated_vm_data and to the head of its main loop.  num_records
\* is the argument of the call (main passes the value of its slider).
Call(s) ==
  /\ pc[s] = "idle"
  /\ s \in env.sessions
  /\ runs[s] < env.runs
  /\ \E n \in env.n, scenario \in env.scen, now \in env.now, fmt \in env.format :
       /\ export_format' = [export_format EXCEPT ![s] = fmt]
       /\ session_state' = [session_state EXCEPT ![s] = Routed(@, FALSE).state]
       /\ route' = [route EXCEPT ![s] = Routed(session_state[s], FALSE).branch]
       /\ num_records' = [num_records EXCEPT ![s] = n]
       /\ correlation_type' = [correlation_type EXCEPT ![s] = scenario]
       /\ base_time' = [base_time EXCEPT ![s] = now - Day]
       /\ timestamps' = [timestamps EXCEPT ![s] = Timestamps(now - Day, n)]
  /\ runs' = [runs EXCEPT ![s] = @ + 1]
  /\ vm_metrics_data' = [vm_metrics_data EXCEPT ![s] = << >>]
  /\ app_logs_data' = [app_logs_data EXCEPT ![s] = << >>]
  /\ host_states' = [host_states EXCEPT ![FrameOf(s)] = NewHostStates(@)]
  /\ i' = [i EXCEPT ![s] = 0]
  /\ pc' = [pc EXCEPT ![s] = "tick"]
  /\ UNCHANGED << env, rng, hostname, error_likely, log_entries_count, log_idx,
                  log_tick, writer, incidents, returned, files, failed >>

\* One iteration of the main loop up to the head of the inner loop: host
\* selection, host state, incident logic, the metrics row, log_entries_count.
Tick(s) ==
  /\ pc[s] = "tick"
  /\ i[s] < Len(timestamps[s])
  /\ LET timestamp == timestamps[s][i[s] + 1]
         f == FrameOf(s)
     IN \E hk \in Choice(vm_hosts, env.host) :
        LET hn == vm_hosts[hk]
            fresh == hn \notin DOMAIN host_states[f]
        IN \E ub \in DrawIf(fresh, Random(env.base)), um \in DrawIf(fresh, Random(env.base)) :
           LET hs0 == IF fresh THEN NewHostState(ub, um) ELSE host_states[f][hn]
               tries == MayStart(correlation_type[s], hs0)
           IN \E uc \in DrawIf(tries, Random(env.chance)) :
              LET starts == tries /\ StartDrawn(uc)
              IN \E d \in DrawIf(starts, IncidentDuration(env.dur)) :
                 LET hs1 == IncidentLogic(correlation_type[s], hs0, timestamp, uc, d)
                     began == ~hs0.incident_mode /\ hs1.incident_mode
                     ended == hs0.incident_mode /\ ~hs1.incident_mode
                 IN \E m \in MetricDraws(hs1.incident_mode),
                       n \in LogEntriesCount(env.nlogs) :
                      /\ RngStep(TickDraws(hk, fresh, ub, um, tries, uc, starts, d, m, n))
                      /\ hostname' = [hostname EXCEPT ![s] = hn]
                      /\ host_states' =
                           [host_states EXCEPT ![f] = SetHostState(@, hn, hs1)]
                      /\ writer' =
                           [writer EXCEPT ![f] =
                              [h \in DOMAIN host_states[f] \cup {hn} |->
                                 IF h = hn /\ fresh THEN << s, runs[s] >> ELSE @[h]]]
                      /\ incidents' =
                           [incidents EXCEPT ![s] =
                              @ \o (IF began
                                    THEN << << "start", hn, i[s], hs1.incident_duration >> >>
                                    ELSE << >>)
                                \o (IF ended
                                    THEN << << "stop", hn, i[s], hs1.incident_duration >> >>
                                    ELSE << >>)]
                      /\ error_likely' = [error_likely EXCEPT ![s] = hs1.incident_mode]
                      /\ vm_metrics_data' =
                           [vm_metrics_data EXCEPT ![s] =
                              AppendRow(@, VmRecord(timestamp, hn, hs1, m))]
                      /\ log_entries_count' = [log_entries_count EXCEPT ![s] = n]
                      /\ log_idx' = [log_idx EXCEPT ![s] = 0]
                      /\ pc' = [pc EXCEPT ![s] = "logs"]
  /\ UNCHANGED << env, runs, num_records, correlation_type, base_time, timestamps,
                  i, app_logs_data, log_tick, returned, export_format, page >>

\* Variant: the error branch reads the dictionary of the normal branch.
MessagesOfNormal(mode, service) ==
  IF service \in CatalogServices
  THEN [k \in 1..4 |-> << "normal", service, k >>]
  ELSE [k \in 1..2 |-> << "normal", "fallback", k >>]

\* error_messages.get(service, [...]) and normal_messages.get(service, [...]):
\* a template is named by its mode, its dictionary key and its position.
Messages(mode, service) ==
  IF service \in CatalogServices
  THEN [k \in 1..4 |-> << mode, service, k >>]
  ELSE [k \in 1..2 |-> << mode, "fallback", k >>]

\* random.random() < 0.4
ErrorDrawn(uc) == uc < 4000

\* Variant: error_likely is not tested.
ErrorBranchUnguarded(likely, uc) == ErrorDrawn(uc)

\* "if error_likely and random.random() < 0.4"
ErrorBranch(likely, uc) == likely /\ ErrorDrawn(uc)

\* Variant: a row of the normal branch carries a code too.
ErrorCodeAlways(kind, error) == RandInt(kind, 400, 599)

\* error_code: random.randint(400, 599) in the error branch, None in the other
ErrorCode(kind, error) == IF error THEN RandInt(kind, 400, 599) ELSE {None}

\* bytes: random.randint(0, 1000) in the error branch, random.randint(1000,
\* 100000) in the other
BytesTransferred(kind, error) ==
  IF error THEN RandInt(kind, 0, 1000) ELSE RandInt(kind, 1000, 100000)

\* Variant: the offset spans two windows.
OffsetsTwoWindows(kind) == RandInt(kind, 0, 599)

\* Variant: an upper bound one too large.
OffsetsThroughEnd(kind) == RandInt(kind, 0, 300)

\* random.randint(0, 299), the offset of a log row inside its window.
Offsets(kind) == RandInt(kind, 0, 299)

\* log_record
LogRecord(timestamp, hn, service, level, message, code, bytes, off) ==
  [ timestamp |-> timestamp + off,
    hostname |-> hn,
    service |-> service,
    log_level |-> level,
    message |-> message,
    error_code |-> code,
    bytes_transferred |-> bytes ]

\* The draws of one log entry in the order the code makes them.
LogDraws(sk, likely, uc, lk, mk, error, code, bytes, off) ==
  << << "service", sk >> >>
    \o (IF likely THEN << << "error", uc >> >> ELSE << >>)
    \o << << "log_level", lk >>, << "message", mk >> >>
    \o (IF error THEN << << "error_code", code >> >> ELSE << >>)
    \o << << "bytes_transferred", bytes >>, << "timestamp", off >> >>

\* One iteration of the inner loop: one log row; after the last one the main
\* loop moves to the next timestamp.
LogEntry(s) ==
  /\ pc[s] = "logs"
  /\ log_idx[s] < log_entries_count[s]
  /\ LET timestamp == timestamps[s][i[s] + 1]
         hn == hostname[s]
         services == ServicesOf(hn)
     IN \E sk \in Choice(services, env.svc),
           uc \in DrawIf(error_likely[s], Random(env.errchance)) :
        LET service == services[sk]
            error == ErrorBranch(error_likely[s], uc)
            levels == IF error THEN ErrorLevels ELSE NormalLevels
            messages == Messages(IF error THEN "error" ELSE "normal", service)
        IN \E lk \in Choice(levels, env.lvl), mk \in Choice(messages, env.msg),
              code \in ErrorCode(env.code, error),
              bytes \in BytesTransferred(env.code, error),
              off \in Offsets(env.off) :
             /\ RngStep(LogDraws(sk, error_likely[s], uc, lk, mk, error, code, bytes, off))
             /\ app_logs_data' =
                  [app_logs_data EXCEPT ![s] =
                     AppendRow(@, LogRecord(timestamp, hn, service, levels[lk],
                                            messages[mk], code, bytes, off))]
             /\ log_tick' = [log_tick EXCEPT ![s] = Append(@, i[s])]
  /\ log_idx' = [log_idx EXCEPT ![s] = @ + 1]
  /\ IF log_idx[s] + 1 < log_entries_count[s]
     THEN UNCHANGED << pc, i >>
     ELSE /\ pc' = [pc EXCEPT ![s] = "tick"]
          /\ i' = [i EXCEPT ![s] = @ + 1]
  /\ UNCHANGED << env, runs, num_records, correlation_type, base_time, timestamps,
                  hostname, host_states, error_likely, log_entries_count, vm_metrics_data,
                  writer, incidents, returned, export_format, page >>

\* The local variables of a call after it has ended.
EndOfCall(s) ==
  /\ num_records' = [num_records EXCEPT ![s] = 0]
  /\ correlation_type' = [correlation_type EXCEPT ![s] = ""]
  /\ base_time' = [base_time EXCEPT ![s] = 0]
  /\ timestamps' = [timestamps EXCEPT ![s] = << >>]
  /\ i' = [i EXCEPT ![s] = 0]
  /\ hostname' = [hostname EXCEPT ![s] = ""]
  /\ error_likely' = [error_likely EXCEPT ![s] = FALSE]
  /\ log_entries_count' = [log_entries_count EXCEPT ![s] = 0]
  /\ log_idx' = [log_idx EXCEPT ![s] = 0]
  /\ vm_metrics_data' = [vm_metrics_data EXCEPT ![s] = << >>]
  /\ app_logs_data' = [app_logs_data EXCEPT ![s] = << >>]
  /\ log_tick' = [log_tick EXCEPT ![s] = << >>]
  /\ incidents' = [incidents EXCEPT ![s] = << >>]

\* main, after the call: "Store both DataFrames", df = vm_metrics_df, "Store
\* in session state".
Stored(old, vm_metrics_df, app_logs_df) ==
  [ k \in DOMAIN old \cup {"vm_metrics_data", "app_logs_data", "generated_data",
                           "data_type"} |->
      CASE k = "vm_metrics_data" -> vm_metrics_df
        [] k = "app_logs_data" -> app_logs_df
        [] k = "generated_data" -> vm_metrics_df
        [] k = "data_type" -> "Correlated VM Data"
        [] OTHER -> old[k] ]

\* The end of the main loop: the two tables are returned and the frame is gone
\* (the dictionary of the frame stays in host_states until the frame is used
\* again; nothing reads it); main stores what it received and goes on to its
\* display section.
Return(s) ==
  /\ pc[s] = "tick"
  /\ i[s] = Len(timestamps[s])
  /\ returned' =
       [returned EXCEPT ![s] =
          Append(@, [ num_records |-> num_records[s],
                      correlation_type |-> correlation_type[s],
                      base_time |-> base_time[s],
                      vm_metrics_df |-> vm_metrics_data[s],
                      app_logs_df |-> app_logs_data[s],
                      log_tick |-> log_tick[s],
                      incidents |-> incidents[s],
                      host_states |-> host_states[FrameOf(s)] ])]
  /\ session_state' =
       [session_state EXCEPT ![s] = Stored(@, vm_metrics_data[s], app_logs_data[s])]
  /\ pc' = [pc EXCEPT ![s] = "display"]
  /\ EndOfCall(s)
  /\ UNCHANGED << env, rng, runs, host_states, writer, export_format, files, failed,
                  route >>

\* Variant: the except clause returns what has been built so far.
OnExceptionPartial(old, partial) == Append(old, partial)

\* "except Exception as e: logger.error(...); raise": nothing is returned.
OnException(old, partial) == old

\* Variant: the handler drops the data of the generation before.
OnGenerationErrorCleared(ss) ==
  [k \in DOMAIN ss \ {"generated_data", "data_type", "vm_metrics_data",
                      "app_logs_data"} |-> ss[k]]

\* main's "except Exception as e": logger.error and st.error; no assignment
\* to st.session_state.
OnGenerationError(ss) == ss

\* A step of the call raises (a value generator, pandas, memory): the except
\* clause of generate_correlated_vm_data logs and raises again, the except
\* clause of main logs and shows the error, and main goes on to its display
\* section.
Raise(s) ==
  /\ pc[s] \in {"tick", "logs"}
  /\ env.fails
  /\ returned' =
       [returned EXCEPT ![s] =
          OnException(@, [ num_records |-> num_records[s],
                           correlation_type |-> correlation_type[s],
                           base_time |-> base_time[s],
                           vm_metrics_df |-> vm_metrics_data[s],
                           app_logs_df |-> app_logs_data[s],
                           log_tick |-> log_tick[s],
                           incidents |-> incidents[s],
                           host_states |-> host_states[FrameOf(s)] ])]
  /\ failed' = [failed EXCEPT ![s] = Append(@, runs[s])]
  /\ pc' = [pc EXCEPT ![s] = "display"]
  /\ EndOfCall(s)
  /\ session_state' = [session_state EXCEPT ![s] = OnGenerationError(@)]
  /\ UNCHANGED << env, rng, runs, host_states, writer, export_format, files, route >>

\* create_download_files(df, export_format): file name to file contents; the
\* contents are the table in the encoding of the file.
CreateDownloadFiles(df, fmt) ==
  [ name \in (IF fmt \in {"CSV", "All Formats"} THEN {"data.csv"} ELSE {})
              \cup (IF fmt \in {"JSON", "All Formats"} THEN {"data.json"} ELSE {})
              \cup (IF fmt \in {"Excel", "All Formats"} THEN {"data.xlsx"} ELSE {}) |->
      << name, df >> ]

\* The display section of main: if there is generated data, the download
\* files are made of it.
Display(s) ==
  /\ pc[s] = "display"
  /\ files' =
       [files EXCEPT ![s] =
          IF "generated_data" \in DOMAIN session_state[s]
          THEN CreateDownloadFiles(session_state[s]["generated_data"], export_format[s])
          ELSE @]
  /\ pc' = [pc EXCEPT ![s] = "idle"]
  /\ UNCHANGED << env, rng, runs, frame, host_states, writer, returned, session_state,
                  export_format, failed, route >>

\* A script run of main without the generate button (a widget changed): the
\* generation section is skipped.
Rerun(s) ==
  /\ pc[s] = "idle"
  /\ s \in env.sessions
  /\ env.rerun
  /\ \E fmt \in env.format : export_format' = [export_format EXCEPT ![s] = fmt]
  /\ \E back_pressed \in BOOLEAN :
       /\ session_state' = [session_state EXCEPT ![s] = Routed(@, back_pressed).state]
       /\ route' = [route EXCEPT ![s] = Routed(session_state[s], back_pressed).branch]
  /\ pc' = [pc EXCEPT ![s] = "display"]
  /\ UNCHANGED << env, rng, runs, frame, host_states, writer, returned, files, failed >>

\* random.seed(seed) called again with the seed of the recorded run, between
\* two calls: the module yields the recorded values from the start.
Reseed ==
  /\ rng.mode = "record"
  /\ rng.tape # << >>
  /\ \A s \in Sessions : pc[s] = "idle"
  /\ rng' = [rng EXCEPT !.mode = "replay", !.pos = 1, !.mark = runs]
  /\ UNCHANGED << env, pc, runs, frame, host_states, writer, returned, export_format,
                  page >>

\* ------------------------------------------------------------ environments
Narrow ==
  [ seeded |-> FALSE, sessions |-> {1}, runs |-> 1, n |-> {1},
    scen |-> Scenarios, now |-> {Day}, host |-> {1},
    base |-> "lo", chance |-> "ends", dur |-> "lo", unit |-> "lo", io |-> "lo",
    net |-> "lo", nlogs |-> "lo", svc |-> {1}, errchance |-> "lo", lvl |-> {1},
    msg |-> {1}, code |-> "lo", off |-> "lo", format |-> {"CSV"}, fails |-> FALSE,
    rerun |-> FALSE ]

\* One host, long runs: whole incidents of every duration.
LongRuns ==
  [Narrow EXCEPT !.n = {1, MaxRecords}, !.dur = "all",
                 !.scen = Scenarios \cup {"performance_issue"}]

\* Two hosts, runs long enough for an incident of one host to end while the
\* other host is selected.
TwoHosts ==
  [Narrow EXCEPT !.n = {MaxDetail + 3}, !.host = {1, 3}, !.now = {Day + 37}]

\* The numbers of the metrics rows.
MetricValues ==
  [Narrow EXCEPT !.n = 0..MaxDetail, !.base = "ends", !.unit = "ends",
                 !.scen = {"performance_issues", "normal_operations"}]

\* cpu_percent next to a value that round(x, 2) moves.
LoadAverages ==
  [Narrow EXCEPT !.unit = "fine", !.scen = {"normal_operations", "performance_issues"}]

\* The integer columns of the metrics rows.
MetricCounts ==
  [Narrow EXCEPT !.io = "ends", !.net = "ends", !.base = "hi", !.unit = "hi",
                 !.host = 1..Len(vm_hosts), !.scen = {"performance_issues"}]

\* The number of log rows of a tick, their offsets and their hosts.
LogCounts ==
  [Narrow EXCEPT !.n = 1..MaxDetail, !.nlogs = "all", !.host = {1, 5},
                 !.chance = "lo", !.scen = {"normal_operations", "mixed_scenarios"}]

LogOffsets ==
  [Narrow EXCEPT !.nlogs = "all", !.off = "ends",
                 !.scen = {"performance_issues"}, !.chance = "lo",
                 !.now = {Day, Day + 37}]

LogHosts ==
  [Narrow EXCEPT !.n = {MaxDetail + 1}, !.off = "ends", !.host = {1, 5},
                 !.scen = {"mixed_scenarios"}]

\* The contents of the log rows.
LogValues ==
  [Narrow EXCEPT !.svc = {1, 2}, !.errchance = "edge",
                 !.lvl = {1, 2, 3}, !.msg = {1, 4}, !.code = "ends",
                 !.scen = {"performance_issues"}]

\* Every service of every host, in both modes.
Services ==
  [Narrow EXCEPT !.host = 1..Len(vm_hosts), !.svc = {1, 2, 3}, !.msg = {1, 2, 4},
                 !.errchance = "ends", !.scen = {"performance_issues"}]

\* Two calls of one session under the same seed: the recorded one and its
\* replay.
SameSeed ==
  [Narrow EXCEPT !.seeded = TRUE, !.runs = 2, !.n = {2},
                 !.host = {1, 3}, !.scen = {"performance_issues"},
                 !.now = {Day, Day + 37}]

\* Two calls of one session under the same seed, under the scenarios without
\* incident logic.
SameDraws ==
  [Narrow EXCEPT !.seeded = TRUE, !.runs = MaxRuns, !.n = {2}, !.host = {1, 3},
                 !.scen = {"normal_operations", "mixed_scenarios"},
                 !.now = {Day, Day + 37}]

\* Calls of two sessions, one after another and interleaved.
TwoSessions ==
  [Narrow EXCEPT !.sessions = Sessions, !.runs = MaxRuns, !.host = {1, 3},
                 !.chance = "lo", !.scen = {"performance_issues"}]

\* The export formats, with script runs that only display.
Exports ==
  [Narrow EXCEPT !.format = {"CSV", "JSON", "Excel"}, !.rerun = TRUE,
                 !.scen = {"performance_issues"}]

\* Calls that raise at any step, after and before calls that return.
Failures ==
  [Narrow EXCEPT !.fails = TRUE, !.runs = MaxRuns, !.n = {MaxDetail},
                 !.scen = {"performance_issues"}]

Environments ==
  { LongRuns, TwoHosts, MetricValues, LoadAverages, MetricCounts, LogCounts, LogOffsets,
    LogHosts, LogValues, Services, SameSeed, SameDraws, TwoSessions, Exports, Failures }

Init ==
  /\ env \in Environments
  /\ rng = [mode |-> IF env.seeded THEN "record" ELSE "os", tape |-> << >>, pos |-> 1,
            mark |-> [s \in Sessions |-> 0]]
  /\ pc = [s \in Sessions |-> "idle"]
  /\ runs = [s \in Sessions |-> 0]
  /\ num_records = [s \in Sessions |-> 0]
  /\ correlation_type = [s \in Sessions |-> ""]
  /\ base_time = [s \in Sessions |-> 0]
  /\ timestamps = [s \in Sessions |-> << >>]
  /\ i = [s \in Sessions |-> 0]
  /\ hostname = [s \in Sessions |-> ""]
  /\ host_states = [f \in Sessions |-> EmptyMap]
  /\ error_likely = [s \in Sessions |-> FALSE]
  /\ log_entries_count = [s \in Sessions |-> 0]
  /\ log_idx = [s \in Sessions |-> 0]
  /\ vm_metrics_data = [s \in Sessions |-> << >>]
  /\ app_logs_data = [s \in Sessions |-> << >>]
  /\ log_tick = [s \in Sessions |-> << >>]
  /\ writer = [f \in Sessions |-> EmptyMap]
  /\ incidents = [s \in Sessions |-> << >>]
  /\ returned = [s \in Sessions |-> << >>]
  /\ session_state = [s \in Sessions |-> EmptyMap]
  /\ export_format = [s \in Sessions |-> "CSV"]
  /\ files = [s \in Sessions |-> EmptyMap]
  /\ failed = [s \in Sessions |-> << >>]
  /\ route = [s \in Sessions |-> "none"]

Next ==
  \/ \E s \in Sessions : Call(s)
  \/ \E s \in Sessions : Tick(s)
  \/ \E s \in Sessions : LogEntry(s)
  \/ \E s \in Sessions : Return(s)
  \/ \E s \in Sessions : Raise(s)
  \/ \E s \in Sessions : Display(s)
  \/ \E s \in Sessions : Rerun(s)
  \/ Reseed

Spec == Init /\ [][Next]_vars

\* ------------------------------------------------------------------ claims
InCall(s) == pc[s] \in {"tick", "logs"}

\* The call in progress in session s, in the shape of a finished call.
Running(s) ==
  [ num_records |-> num_records[s],
    correlation_type |-> correlation_type[s],
    base_time |-> base_time[s],
    vm_metrics_df |-> vm_metrics_data[s],
    app_logs_df |-> app_logs_data[s],
    log_tick |-> log_tick[s],
    incidents |-> incidents[s],
    host_states |-> host_states[FrameOf(s)] ]

Finished == UNION {{returned[s][k] : k \in 1..Len(returned[s])} : s \in Sessions}

AllRuns == Finished \cup {Running(s) : s \in {x \in Sessions : InCall(x)}}

\* A metrics row of the high load branch / of the normal branch, by its columns.
IncidentRow(row) ==
  /\ row.available_memory_bytes \in 500..2000
  /\ row.disk_read_operations \in 500..2000
  /\ row.disk_write_operations \in 200..800

NormalRow(row) ==
  /\ row.available_memory_bytes \in 4000..8000
  /\ row.disk_read_operations \in 10..200
  /\ row.disk_write_operations \in 5..100

\* C1: a call with a scenario string outside the three scenarios fails with
\* InvalidScenario before any timestamp, host state, metrics row or log row is
\* produced, and returns nothing.
C1_InvalidScenarioRejected ==
  /\ \A s \in Sessions :
       (InCall(s) /\ correlation_type[s] \notin Scenarios)
         => /\ timestamps[s] = << >>
            /\ host_states[FrameOf(s)] = EmptyMap
            /\ vm_metrics_data[s] = << >>
            /\ app_logs_data[s] = << >>
  /\ \A r \in Finished : r.correlation_type \in Scenarios

\* C2: for every num_records >= 1 and every scenario the returned metrics table
\* has exactly num_records rows, and row k (from 0) carries base_time + k * 5
\* minutes; the rows of a call in progress carry the same timestamps.
C2_MetricsTimestamps ==
  /\ \A r \in Finished :
       r.num_records >= 1 => Len(r.vm_metrics_df) = r.num_records
  /\ \A r \in AllRuns :
       \A k \in 1..Len(r.vm_metrics_df) :
         r.vm_metrics_df[k].timestamp = r.base_time + (k - 1) * 300

C2_Witness ==
  \E r \in Finished :
    /\ Len(r.vm_metrics_df) >= 3
    /\ r.base_time % 300 # 0
    /\ r.vm_metrics_df[3].timestamp = r.vm_metrics_df[1].timestamp + 600

\* C3: every log row made at a tick has the hostname of that tick's metrics
\* row and a timestamp t with tick timestamp <= t < tick timestamp + 300 s.
C3_LogRowInWindow ==
  \A r \in AllRuns :
    \A k \in 1..Len(r.app_logs_df) :
      LET row == r.app_logs_df[k]
          metrics == r.vm_metrics_df[r.log_tick[k] + 1]
      IN /\ row.hostname = metrics.hostname
         /\ metrics.timestamp <= row.timestamp
         /\ row.timestamp < metrics.timestamp + 300

C3_Witness ==
  \E r \in Finished :
    /\ \E k \in 1..Len(r.app_logs_df) :
         r.app_logs_df[k].timestamp
           = r.vm_metrics_df[r.log_tick[k] + 1].timestamp + 299
    /\ \E a, b \in 1..Len(r.vm_metrics_df) :
         r.vm_metrics_df[a].hostname # r.vm_metrics_df[b].hostname

\* The number of log rows made at tick t of a run.
TickLogs(r, t) == Cardinality({k \in 1..Len(r.log_tick) : r.log_tick[k] = t})

\* C4: each tick appends between 1 and 5 log rows, so the log table of a run of
\* num_records ticks has between num_records and 5 * num_records rows.
C4_LogCounts ==
  /\ \A s \in Sessions : pc[s] = "logs" => log_entries_count[s] \in 1..5
  /\ \A r \in Finished :
       /\ \A t \in 0..(r.num_records - 1) : TickLogs(r, t) \in 1..5
       /\ r.num_records >= 0 =>
            /\ Len(r.app_logs_df) >= r.num_records
            /\ Len(r.app_logs_df) <= 5 * r.num_records

C4_Witness ==
  \E r \in Finished :
    /\ r.num_records = 2
    /\ Len(r.app_logs_df) = 10

\* C5: under normal_operations no host state ever has incident_mode = TRUE, no
\* incident starts and no metrics row is of the high load branch.
C5_NormalNeverIncident ==
  /\ \A s \in Sessions :
       (InCall(s) /\ correlation_type[s] = "normal_operations")
         => \A h \in DOMAIN host_states[FrameOf(s)] :
              ~host_states[FrameOf(s)][h].incident_mode
  /\ \A r \in AllRuns :
       r.correlation_type = "normal_operations"
         => /\ r.incidents = << >>
            /\ \A k \in 1..Len(r.vm_metrics_df) : NormalRow(r.vm_metrics_df[k])

C5_Witness ==
  \E r \in Finished :
    /\ r.correlation_type = "normal_operations"
    /\ Len(r.vm_metrics_df) >= 10

\* C6: under performance_issues a host that enters Incident at tick T with
\* planned duration d (3 <= d <= 9) has high load rows at every tick of
\* T..T+d-1 at which it is selected, and a normal row at the first tick >= T+d
\* at which it is selected; the row made at a tick is of the branch of the
\* host's incident_mode after that tick's update.
C6_IncidentLasts ==
  /\ \A r \in AllRuns :
       \A e \in 1..Len(r.incidents) :
         LET ev == r.incidents[e]
             h == ev[2]
             T == ev[3]
             d == ev[4]
         IN ev[1] = "start" =>
              /\ d \in 3..9
              /\ \A t \in T..(Len(r.vm_metrics_df) - 1) :
                   r.vm_metrics_df[t + 1].hostname = h =>
                     /\ t <= T + d - 1 => IncidentRow(r.vm_metrics_df[t + 1])
                     /\ (/\ t >= T + d
                         /\ \A u \in (T + d)..(t - 1) : r.vm_metrics_df[u + 1].hostname # h)
                          => NormalRow(r.vm_metrics_df[t + 1])
  /\ \A s \in Sessions :
       pc[s] = "logs" =>
         LET row == vm_metrics_data[s][i[s] + 1]
         IN IF host_states[FrameOf(s)][hostname[s]].incident_mode
            THEN IncidentRow(row) ELSE NormalRow(row)

C6_Witness ==
  \E r \in Finished :
    \E e \in 1..Len(r.incidents) :
      LET ev == r.incidents[e]
      IN /\ ev[1] = "start"
         /\ ev[4] = 9
         /\ Len(r.vm_metrics_df) >= ev[3] + 10
         /\ IncidentRow(r.vm_metrics_df[ev[3] + 9])
         /\ NormalRow(r.vm_metrics_df[ev[3] + 10])

\* timestamp lies in [incident_start, incident_start + incident_duration ticks)
InWindow(hs, timestamp) ==
  /\ hs.incident_start # None
  /\ hs.incident_start <= timestamp
  /\ timestamp < hs.incident_start + 300 * hs.incident_duration

\* C7 as stated: at every tick, for every host that has a state, selected at
\* that tick or not, incident_mode is true iff the tick's timestamp lies in the
\* incident window.
C7_FlagIffWindowAllHosts ==
  \A s \in Sessions :
    pc[s] = "logs" =>
      \A h \in DOMAIN host_states[FrameOf(s)] :
        host_states[FrameOf(s)][h].incident_mode
          <=> InWindow(host_states[FrameOf(s)][h], timestamps[s][i[s] + 1])

\* C7 amended: at every tick, for the host selected at that tick incident_mode
\* is true iff the tick's timestamp lies in the incident window; for every
\* other host with a state the window implies incident_mode, but incident_mode
\* may stay true after the window until the host is selected again.
C7_FlagIffWindowSelected ==
  \A s \in Sessions :
    pc[s] = "logs" =>
      LET ts == timestamps[s][i[s] + 1]
          states == host_states[FrameOf(s)]
      IN /\ states[hostname[s]].incident_mode <=> InWindow(states[hostname[s]], ts)
         /\ \A h \in DOMAIN states : InWindow(states[h], ts) => states[h].incident_mode

C7_Witness ==
  \E s \in Sessions :
    /\ pc[s] = "logs"
    /\ LET ts == timestamps[s][i[s] + 1]
           states == host_states[FrameOf(s)]
       IN /\ states[hostname[s]].incident_mode
          /\ \E h \in DOMAIN states :
               /\ h # hostname[s]
               /\ states[h].incident_mode
               /\ ~InWindow(states[h], ts)

\* The first call of session s after the random module was seeded, and the
\* first one after it was seeded again with the same seed.
FirstRecorded(s) == returned[s][1]
FirstReplayed(s) == returned[s][rng.mark[s] + 1]

C9_HostStatesPerCall ==
  \A s \in Sessions :
    InCall(s) =>
      /\ (pc[s] = "tick" /\ i[s] = 0) => host_states[FrameOf(s)] = EmptyMap
      /\ \A h \in DOMAIN host_states[FrameOf(s)] :
           writer[FrameOf(s)][h] = << s, runs[s] >>

C9_Witness ==
  \E s, t \in Sessions :
    /\ s # t
    /\ pc[s] = "logs"
    /\ pc[t] = "logs"
    /\ runs[s] = 2
    /\ hostname[s] = hostname[t]
    /\ Len(returned[s]) = 1
    /\ Len(returned[s][1].vm_metrics_df) >= 1

AllMetricsRows ==
  UNION {{r.vm_metrics_df[k] : k \in 1..Len(r.vm_metrics_df)} : r \in AllRuns}

Percentage(x) == 0 <= x /\ x <= 1000000

\* C10: every metrics row has cpu_usage_percent, memory_usage_percent,
\* available_memory_percentage and disk_usage_percent within [0, 100].
C10_PercentagesInRange ==
  \A row \in AllMetricsRows :
    /\ Percentage(row.cpu_usage_percent)
    /\ Percentage(row.memory_usage_percent)
    /\ Percentage(row.available_memory_percentage)
    /\ Percentage(row.disk_usage_percent)

C10_Witness ==
  \E row \in AllMetricsRows :
    /\ IncidentRow(row)
    /\ row.memory_usage_percent = 950000
    /\ row.available_memory_percentage = 50000
    /\ row.cpu_usage_percent = 900000

StoredAs(x, c) == Round2(Clamp(x)) = c

Range(seq) == {seq[k] : k \in 1..Len(seq)}

\* The metrics row of the tick at which log row k of run r was made.
TickRow(r, k) == r.vm_metrics_df[r.log_tick[k] + 1]

\* C12: a log row has level ERROR, WARN or CRIT only if its host is in an
\* incident at the tick of the row; at a tick whose host is not in an incident
\* every log row has level INFO or DEBUG.
C12_ErrorOnlyInIncident ==
  /\ \A s \in Sessions :
       pc[s] = "logs" =>
         error_likely[s] = host_states[FrameOf(s)][hostname[s]].incident_mode
  /\ \A r \in AllRuns :
       \A k \in 1..Len(r.app_logs_df) :
         /\ r.app_logs_df[k].log_level \in Range(ErrorLevels) \cup Range(NormalLevels)
         /\ r.app_logs_df[k].log_level \in Range(ErrorLevels) => IncidentRow(TickRow(r, k))
         /\ NormalRow(TickRow(r, k)) => r.app_logs_df[k].log_level \in Range(NormalLevels)

\* A returned run with a CRIT row, made at a tick of an incident.
C12_Witness ==
  \E r \in Finished :
    \E k \in 1..Len(r.app_logs_df) :
      /\ r.app_logs_df[k].log_level = "CRIT"
      /\ IncidentRow(TickRow(r, k))
      /\ r.correlation_type = "performance_issues"

\* The two modes of a log row.
ErrorMode(row) ==
  /\ row.log_level \in Range(ErrorLevels)
  /\ row.bytes_transferred \in 0..1000
  /\ row.error_code \in 400..599

NormalMode(row) ==
  /\ row.log_level \in Range(NormalLevels)
  /\ row.bytes_transferred \in 1000..100000
  /\ row.error_code = None

AllLogRows ==
  UNION {Range(r.app_logs_df) : r \in AllRuns}

\* C13: every log row is in exactly one of two modes: error mode (level ERROR,
\* WARN or CRIT, bytes_transferred in 0..1000, error_code in 400..599) or normal
\* mode (level INFO or DEBUG, bytes_transferred in 1000..100000, no error_code).
C13_TwoModes ==
  \A row \in AllLogRows :
    /\ ErrorMode(row) \/ NormalMode(row)
    /\ ~(ErrorMode(row) /\ NormalMode(row))

\* A returned error row with 1000 bytes, the value the two byte ranges share.
C13_Witness ==
  \E r \in Finished :
    \E row \in Range(r.app_logs_df) :
      /\ ErrorMode(row)
      /\ ~NormalMode(row)
      /\ row.bytes_transferred = 1000
      /\ row.error_code = 599

\* The tables of which create_download_files made the files of session s.
Exported(s) == {files[s][name][2] : name \in DOMAIN files[s]}

\* C14: after a successful "Correlated VM Data" generation both tables, the
\* metrics table and the log table, are handed to create_download_files, so
\* that both can be downloaded.
C14_BothTablesExported ==
  \A s \in Sessions :
    (pc[s] = "idle" /\ "app_logs_data" \in DOMAIN session_state[s])
      => /\ session_state[s]["vm_metrics_data"] \in Exported(s)
         /\ session_state[s]["app_logs_data"] \in Exported(s)

\* generate_correlated_vm_data has no maximum of its own, and the slider of
\* main stops at 10000.  C15 is stated for a maximum that the runs of this
\* model exceed: one less than the longest of them.
ConfiguredMaximum == MaxRecords - 1

\* C15: a request whose interval count exceeds the configured maximum is
\* rejected with LimitExceeded before generation begins: no such call reaches
\* the main loop, and none returns tables.
C15_OverLimitRejected ==
  /\ \A s \in Sessions : InCall(s) => num_records[s] <= ConfiguredMaximum
  /\ \A r \in Finished : r.num_records <= ConfiguredMaximum

\* The metrics timestamps of run r whose five minute window holds log row k.
WindowsOf(r, k) ==
  {row.timestamp : row \in
     {m \in Range(r.vm_metrics_df) :
        /\ m.timestamp <= r.app_logs_df[k].timestamp
        /\ r.app_logs_df[k].timestamp < m.timestamp + TickSeconds}}

\* C16: a call in which a step fails returns neither table, so that every call
\* either returns once or raises once; and the windows covered by the log
\* rows of a returned pair are exactly the timestamps of its metrics rows, one
\* row for each of the num_records ticks.
C16_AllOrNothing ==
  /\ \A s \in Sessions :
       Len(returned[s]) + Len(failed[s]) + (IF InCall(s) THEN 1 ELSE 0) = runs[s]
  /\ \A r \in Finished :
       /\ Len(r.vm_metrics_df) = Max(r.num_records, 0)
       /\ \A k \in 1..Len(r.app_logs_df) : WindowsOf(r, k) # {}
       /\ UNION {WindowsOf(r, k) : k \in 1..Len(r.app_logs_df)}
            = {row.timestamp : row \in Range(r.vm_metrics_df)}

\* The first call returned a pair; the second raised after it had made the
\* state of a host, and returned nothing.
C16_Witness ==
  \E s \in Sessions :
    /\ pc[s] = "idle"
    /\ failed[s] = << 2 >>
    /\ Len(returned[s]) = 1
    /\ Len(returned[s][1].vm_metrics_df) >= 1
    /\ \E h \in DOMAIN writer[FrameOf(s)] : writer[FrameOf(s)][h] = << s, 2 >>

\* Host h is in an incident in the dictionary of frame f.
InIncident(f, h) ==
  /\ h \in DOMAIN host_states[f]
  /\ host_states[f][h].incident_mode

\* C17: a host goes from Normal to Incident in a step only if the step is a
\* tick of a call under performance_issues that selects this host; the host's
\* incident_start is then the timestamp of the tick and its incident_duration
\* is within 3..9.
C17_IncidentStart ==
  [][\A s \in Sessions :
       \A h \in Range(vm_hosts) :
         (~InIncident(FrameOf(s), h) /\ InIncident(FrameOf(s), h)')
           => /\ pc[s] = "tick"
              /\ correlation_type[s] = "performance_issues"
              /\ hostname'[s] = h
              /\ host_states'[FrameOf(s)][h].incident_start = timestamps[s][i[s] + 1]
              /\ host_states'[FrameOf(s)][h].incident_duration \in 3..9]_vars

\* A host that was Normal at the ticks before has just started an incident of
\* nine ticks at the timestamp of the current tick.
C17_Witness ==
  \E s \in Sessions :
    /\ pc[s] = "logs"
    /\ i[s] >= 1
    /\ correlation_type[s] = "performance_issues"
    /\ incidents[s] = << << "start", hostname[s], i[s], 9 >> >>
    /\ host_states[FrameOf(s)][hostname[s]].incident_mode
    /\ host_states[FrameOf(s)][hostname[s]].incident_start = timestamps[s][i[s] + 1]
    /\ host_states[FrameOf(s)][hostname[s]].incident_duration = 9

\* C18: with the same num_records and the same draws, a run under
\* mixed_scenarios has the same host states, metrics rows and log rows as a run
\* under normal_operations (made at the same time of day); no run under
\* mixed_scenarios starts an incident or takes the incident branch.
C18_MixedAsNormal ==
  /\ \A s \in Sessions :
       (/\ rng.mode = "replay"
        /\ Len(returned[s]) > rng.mark[s]
        /\ FirstRecorded(s).correlation_type = "normal_operations"
        /\ FirstReplayed(s).correlation_type = "mixed_scenarios"
        /\ FirstRecorded(s).num_records = FirstReplayed(s).num_records
        /\ FirstRecorded(s).base_time = FirstReplayed(s).base_time)
         => /\ FirstReplayed(s).host_states = FirstRecorded(s).host_states
            /\ FirstReplayed(s).vm_metrics_df = FirstRecorded(s).vm_metrics_df
            /\ FirstReplayed(s).app_logs_df = FirstRecorded(s).app_logs_df
  /\ \A r \in AllRuns :
       r.correlation_type = "mixed_scenarios"
         => /\ r.incidents = << >>
            /\ \A h \in DOMAIN r.host_states : ~r.host_states[h].incident_mode
            /\ \A row \in Range(r.vm_metrics_df) : NormalRow(row)
            /\ \A row \in Range(r.app_logs_df) : NormalMode(row)

\* A run under normal_operations and its replay under mixed_scenarios, both
\* over two ticks with two hosts.
C18_Witness ==
  \E s \in Sessions :
    /\ rng.mode = "replay"
    /\ Len(returned[s]) > rng.mark[s]
    /\ FirstRecorded(s).correlation_type = "normal_operations"
    /\ FirstReplayed(s).correlation_type = "mixed_scenarios"
    /\ FirstRecorded(s).base_time = FirstReplayed(s).base_time
    /\ Len(FirstReplayed(s).vm_metrics_df) = 2
    /\ Cardinality(DOMAIN FirstReplayed(s).host_states) = 2
    /\ Len(FirstReplayed(s).app_logs_df) >= 2

\* C19: a metrics row of the incident regime has cpu and memory at most 95,
\* available memory within 0.5..2 GB, disk reads within 500..2000 and disk
\* writes within 200..800; a row of the normal regime has available memory
\* within 4..8 GB, disk reads within 10..200 and disk writes within 5..100.
\* Every row is of exactly one regime, the one of its host's incident flag at
\* the tick of the row.
C19_RowRegimes ==
  /\ \A row \in AllMetricsRows :
       /\ IncidentRow(row) \/ NormalRow(row)
       /\ ~(IncidentRow(row) /\ NormalRow(row))
       /\ IncidentRow(row) =>
            /\ row.cpu_usage_percent <= 950000
            /\ row.memory_usage_percent <= 950000
  /\ \A s \in Sessions :
       pc[s] = "logs" =>
         LET row == vm_metrics_data[s][Len(vm_metrics_data[s])]
             flag == host_states[FrameOf(s)][hostname[s]].incident_mode
         IN /\ row.hostname = hostname[s]
            /\ flag => IncidentRow(row)
            /\ ~flag => NormalRow(row)

\* A row of an incident at the upper ends of its ranges, memory at the cap.
C19_Witness ==
  \E s \in Sessions :
    /\ pc[s] = "logs"
    /\ host_states[FrameOf(s)][hostname[s]].incident_mode
    /\ LET row == vm_metrics_data[s][Len(vm_metrics_data[s])]
       IN /\ row.memory_usage_percent = 950000
          /\ row.available_memory_bytes = 2000
          /\ row.disk_read_operations = 2000
          /\ row.disk_write_operations = 800

\* The mode of a log row, as a message template names it.
ModeOf(row) == IF row.log_level \in Range(ErrorLevels) THEN "error" ELSE "normal"

\* C20 as stated: the message of every log row is drawn from the catalog entry
\* of the row's own service for the row's mode, for every service of every host.
C20_MessageOfOwnService ==
  \A row \in AllLogRows :
    /\ row.service \in Range(ServicesOf(row.hostname))
    /\ row.message[1] = ModeOf(row)
    /\ row.message[2] = row.service

\* C20: the message of a log row of service nginx, mysql, java or redis is one
\* of the four messages of that service for the row's mode; the message of a row
\* of any other service is one of the two fallback messages of the row's mode.
C20_MessageOrFallback ==
  \A row \in AllLogRows :
    /\ row.service \in Range(ServicesOf(row.hostname))
    /\ row.message[1] = ModeOf(row)
    /\ row.service \in CatalogServices
         => row.message[2] = row.service /\ row.message[3] \in 1..4
    /\ row.service \notin CatalogServices
         => row.message[2] = "fallback" /\ row.message[3] \in 1..2

\* A returned error row of php-fpm, which has no entry in the dictionaries.
C20_Witness ==
  \E r \in Finished :
    \E row \in Range(r.app_logs_df) :
      /\ row.service = "php-fpm"
      /\ row.log_level = "ERROR"
      /\ row.message = << "error", "fallback", 2 >>

\* C21: the service of every log row is one of the services configured for the
\* host selected at the tick of the row, which is the host of the row; it is
\* never the placeholder service.
C21_ServiceOfHost ==
  \A r \in AllRuns :
    \A k \in 1..Len(r.app_logs_df) :
      LET row == r.app_logs_df[k]
      IN /\ row.hostname = TickRow(r, k).hostname
         /\ row.hostname \in DOMAIN services_by_host
         /\ row.service \in Range(services_by_host[row.hostname])
         /\ row.service # "unknown-service"

\* A returned row of the third service of the last host.
C21_Witness ==
  \E r \in Finished :
    \E row \in Range(r.app_logs_df) :
      /\ row.hostname = "vm-monitoring-02"
      /\ row.service = "alertmanager"

\* The ticks of the call in progress in session s that have made their row.
TicksDone(s) == i[s] + (IF pc[s] = "logs" THEN 1 ELSE 0)

\* C22: every tick selects one host of vm_hosts and appends one metrics row,
\* of that host: the metrics table has one row for each tick made, each of a
\* host of the pool, and the row of the current tick is of the selected host.
C22_OneHostPerTick ==
  /\ \A s \in Sessions :
       InCall(s) =>
         /\ Len(vm_metrics_data[s]) = TicksDone(s)
         /\ pc[s] = "logs" =>
              /\ hostname[s] \in Range(vm_hosts)
              /\ vm_metrics_data[s][Len(vm_metrics_data[s])].hostname = hostname[s]
  /\ \A r \in AllRuns :
       \A row \in Range(r.vm_metrics_df) : row.hostname \in Range(vm_hosts)
  /\ \A r \in Finished : Len(r.vm_metrics_df) = Max(r.num_records, 0)

\* A returned run of at least three ticks in which one host has the first row
\* only and another host all the rows after it.
C22_Witness ==
  \E r \in Finished :
    /\ Len(r.vm_metrics_df) >= 3
    /\ r.vm_metrics_df[1].hostname = "vm-api-01"
    /\ \A k \in 2..Len(r.vm_metrics_df) : r.vm_metrics_df[k].hostname = "vm-web-01"

\* The hosts selected so far in the call in progress in session s.
SelectedSoFar(s) == {row.hostname : row \in Range(vm_metrics_data[s])}

\* C23: during a call the hosts that have a host state are exactly the hosts
\* selected at some tick so far; and a host state made at a tick is Normal, with
\* no incident_start and incident_duration 0, unless the incident logic of that
\* same tick has started an incident in it.
C23_LazyHostState ==
  /\ [](\A s \in Sessions :
          InCall(s) => DOMAIN host_states[FrameOf(s)] = SelectedSoFar(s))
  /\ [][\A s \in Sessions :
          \A h \in Range(vm_hosts) :
            (/\ pc[s] = "tick"
             /\ h \notin DOMAIN host_states[FrameOf(s)]
             /\ h \in DOMAIN host_states'[FrameOf(s)])
              => LET hs == host_states'[FrameOf(s)][h]
                 IN /\ hostname'[s] = h
                    /\ \/ /\ ~hs.incident_mode
                          /\ hs.incident_start = None
                          /\ hs.incident_duration = 0
                       \/ /\ correlation_type[s] = "performance_issues"
                          /\ hs.incident_mode
                          /\ hs.incident_start = timestamps[s][i[s] + 1]
                          /\ hs.incident_duration \in 3..9]_vars

\* The second tick of a call under performance_issues has made the state of a
\* second host, and it is Normal.
C23_Witness ==
  \E s \in Sessions :
    /\ pc[s] = "logs"
    /\ i[s] >= 1
    /\ correlation_type[s] = "performance_issues"
    /\ Cardinality(DOMAIN host_states[FrameOf(s)]) = 2
    /\ \A k \in 1..i[s] : vm_metrics_data[s][k].hostname # hostname[s]
    /\ ~host_states[FrameOf(s)][hostname[s]].incident_mode
    /\ host_states[FrameOf(s)][hostname[s]].incident_start = None
    /\ host_states[FrameOf(s)][hostname[s]].incident_duration = 0

\* Sequence a is the beginning of sequence b.
Prefix(a, b) == Len(a) <= Len(b) /\ \A k \in 1..Len(a) : b[k] = a[k]

\* C24: a step of a call only appends to the two tables: a tick appends one
\* metrics row and no log row, a log entry appends one log row and no metrics
\* row, and every row appended before stays as it is, at its place; the tables
\* returned are the tables built.
C24_AppendOnly ==
  [][\A s \in Sessions :
       InCall(s) =>
         /\ InCall(s)' =>
              LET here == << pc[s], i[s], log_idx[s] >>
                  more_rows == Len(vm_metrics_data'[s]) - Len(vm_metrics_data[s])
                  more_logs == Len(app_logs_data'[s]) - Len(app_logs_data[s])
              IN /\ Prefix(vm_metrics_data[s], vm_metrics_data'[s])
                 /\ Prefix(app_logs_data[s], app_logs_data'[s])
                 /\ here' = here => more_rows = 0 /\ more_logs = 0
                 /\ (here' # here /\ pc[s] = "tick") => more_rows = 1 /\ more_logs = 0
                 /\ (here' # here /\ pc[s] = "logs") => more_rows = 0 /\ more_logs = 1
         /\ Len(returned'[s]) > Len(returned[s]) =>
              /\ returned'[s][Len(returned'[s])].vm_metrics_df = vm_metrics_data[s]
              /\ returned'[s][Len(returned'[s])].app_logs_df = app_logs_data[s]]_vars

\* A call at the head of its third tick, with two metrics rows and at least two
\* log rows behind it.
C24_Witness ==
  \E s \in Sessions :
    /\ pc[s] = "tick"
    /\ i[s] = 2
    /\ i[s] < Len(timestamps[s])
    /\ Len(vm_metrics_data[s]) = 2
    /\ vm_metrics_data[s][1] # vm_metrics_data[s][2]
    /\ Len(app_logs_data[s]) >= 2
    /\ app_logs_data[s][1] # app_logs_data[s][2]

\* The events of run r of one kind.
EventsOf(r, kind) == {e \in 1..Len(r.incidents) : r.incidents[e][1] = kind}

\* C25: at a tick that selects a host whose incident has lasted its planned
\* duration the incident ends and none starts: the host is Normal after the
\* tick, its incident_start is the old one and the row of the tick is a normal
\* row.  So between two incident starts of one host in a run there is a normal
\* row of that host.
C25_NoRestartAtEnd ==
  /\ [][\A s \in Sessions :
          (pc[s] = "tick" /\ pc'[s] = "logs") =>
            LET f == FrameOf(s)
                h == hostname'[s]
                timestamp == timestamps[s][i[s] + 1]
            IN (/\ h \in DOMAIN host_states[f]
                /\ host_states[f][h].incident_mode
                /\ timestamp - host_states[f][h].incident_start
                     >= TickSeconds * host_states[f][h].incident_duration)
                 => /\ ~host_states'[f][h].incident_mode
                    /\ host_states'[f][h].incident_start = host_states[f][h].incident_start
                    /\ NormalRow(vm_metrics_data'[s][Len(vm_metrics_data'[s])])]_vars
  /\ [](\A r \in AllRuns :
          \A a, b \in EventsOf(r, "start") :
            (a < b /\ r.incidents[a][2] = r.incidents[b][2])
              => \E t \in (r.incidents[a][3] + 1)..(r.incidents[b][3] - 1) :
                   /\ r.vm_metrics_df[t + 1].hostname = r.incidents[a][2]
                   /\ NormalRow(r.vm_metrics_df[t + 1]))

\* A returned run in which an incident of three ticks has ended at the tick at
\* which it was over, with a normal row, and the next incident of the host has
\* started at the tick after.
C25_Witness ==
  \E r \in Finished :
    \E a, b \in EventsOf(r, "start") :
      \E c \in EventsOf(r, "stop") :
        /\ a < c /\ c < b
        /\ r.incidents[a][2] = r.incidents[b][2]
        /\ r.incidents[c][2] = r.incidents[a][2]
        /\ r.incidents[a][4] = 3
        /\ r.incidents[c][3] = r.incidents[a][3] + 3
        /\ r.incidents[b][3] = r.incidents[c][3] + 1
        /\ NormalRow(r.vm_metrics_df[r.incidents[c][3] + 1])

\* The timestamp of the tick last entered by the call in progress in session s.
CurrentTimestamp(s) == timestamps[s][Min(i[s] + 1, Len(timestamps[s]))]

\* C26: during a call every host state has incident_duration 0 or within 3..9;
\* a host state in incident_mode has an incident_start, not later than the
\* current tick's timestamp, and incident_duration within 3..9, so that the
\* elapsed time computed from it is never negative.
C26_HostStateFields ==
  \A s \in Sessions :
    InCall(s) =>
      \A h \in DOMAIN host_states[FrameOf(s)] :
        LET hs == host_states[FrameOf(s)][h]
        IN /\ hs.incident_duration \in {0} \cup 3..9
           /\ hs.incident_duration = 0 <=> hs.incident_start = None
           /\ hs.incident_mode =>
                /\ hs.incident_start # None
                /\ hs.incident_duration \in 3..9
                /\ timestamps[s] # << >>
                /\ hs.incident_start <= CurrentTimestamp(s)
                /\ CurrentTimestamp(s) - hs.incident_start >= 0

\* A host in the third tick of an incident of nine, between two ticks.
C26_Witness ==
  \E s \in Sessions :
    /\ pc[s] = "tick"
    /\ i[s] < Len(timestamps[s])
    /\ \E h \in DOMAIN host_states[FrameOf(s)] :
         LET hs == host_states[FrameOf(s)][h]
         IN /\ hs.incident_mode
            /\ hs.incident_duration = 9
            /\ CurrentTimestamp(s) - hs.incident_start = 2 * TickSeconds

\* C27: a step of a call changes the state of no host but the one a tick
\* selects: the state of every other host stays as it is, a step of the inner
\* loop changes no host state, no host state is removed, and base_cpu and
\* base_memory of a host state never change.
C27_OnlySelectedHostChanges ==
  [][\A s \in Sessions :
       (InCall(s) /\ InCall(s)') =>
         \A h \in DOMAIN host_states[FrameOf(s)] :
           /\ h \in DOMAIN host_states'[FrameOf(s)]
           /\ host_states'[FrameOf(s)][h].base_cpu = host_states[FrameOf(s)][h].base_cpu
           /\ host_states'[FrameOf(s)][h].base_memory
                = host_states[FrameOf(s)][h].base_memory
           /\ (pc[s] # "tick" \/ hostname'[s] # h)
                => host_states'[FrameOf(s)][h] = host_states[FrameOf(s)][h]]_vars

\* A tick has selected one host and left it Normal, while another host, not
\* selected, is still in the incident it started at an earlier tick.
C27_Witness ==
  \E s \in Sessions :
    /\ pc[s] = "logs"
    /\ ~host_states[FrameOf(s)][hostname[s]].incident_mode
    /\ \E h \in DOMAIN host_states[FrameOf(s)] :
         /\ h # hostname[s]
         /\ host_states[FrameOf(s)][h].incident_mode
         /\ host_states[FrameOf(s)][h].incident_start < timestamps[s][i[s] + 1]

\* The timestamp of the tick of log row k of run r.
TickTimestamp(r, k) == TickRow(r, k).timestamp

\* C28: a log row of an earlier tick is strictly earlier than the timestamp of
\* every later tick, so strictly earlier than every log row of a later tick;
\* the log table is in the order of the ticks.
C28_LogsOrderedAcrossTicks ==
  \A r \in AllRuns :
    \A k1, k2 \in 1..Len(r.app_logs_df) :
      /\ k1 < k2 => r.log_tick[k1] <= r.log_tick[k2]
      /\ r.log_tick[k1] < r.log_tick[k2] =>
           /\ r.app_logs_df[k1].timestamp < TickTimestamp(r, k2)
           /\ r.app_logs_df[k1].timestamp < r.app_logs_df[k2].timestamp
      /\ (k1 < k2 /\ r.app_logs_df[k1].timestamp >= r.app_logs_df[k2].timestamp)
           => TickTimestamp(r, k1) = TickTimestamp(r, k2)

\* A returned run with a row at the last second of one window and a row at
\* the first second of the next.
C28_Witness ==
  \E r \in Finished :
    \E k \in 1..(Len(r.app_logs_df) - 1) :
      /\ r.log_tick[k + 1] = r.log_tick[k] + 1
      /\ r.app_logs_df[k].timestamp = TickTimestamp(r, k) + TickSeconds - 1
      /\ r.app_logs_df[k + 1].timestamp = r.app_logs_df[k].timestamp + 1

\* C29: show_app is False in every session state that has it, that is from
\* the first script run of the session on; every script run takes the landing
\* branch of the routing and none reaches the Back to Home button.
C29_ShowAppNeverTrue ==
  \A s \in Sessions :
    /\ "show_app" \in DOMAIN session_state[s] => ~session_state[s]["show_app"]
    /\ route[s] \in {"none", "landing"}
    /\ runs[s] > 0 => "show_app" \in DOMAIN session_state[s] /\ route[s] = "landing"

\* A session after a generation and a later script run without the button.
C29_Witness ==
  \E s \in Sessions :
    /\ pc[s] = "display"
    /\ route[s] = "landing"
    /\ "generated_data" \in DOMAIN session_state[s]
    /\ files[s] # EmptyMap
    /\ ~session_state[s]["show_app"]

\* The four entries of the session state that a generation stores.
Dataset(ss) ==
  [k \in DOMAIN ss \cap {"generated_data", "data_type", "vm_metrics_data",
                         "app_logs_data"} |-> ss[k]]

\* C30: a call that raises leaves generated_data, data_type, vm_metrics_data
\* and app_logs_data of the session state as they were, and is reported; the
\* session state holds the tables of the last call that returned, if any, and
\* after the display section the download files are made of them.
C30_ErrorKeepsDataset ==
  /\ [][\A s \in Sessions :
          Len(failed'[s]) > Len(failed[s]) =>
            /\ Dataset(session_state'[s]) = Dataset(session_state[s])
            /\ Len(failed'[s]) = Len(failed[s]) + 1
            /\ pc'[s] = "display"]_vars
  /\ [](\A s \in Sessions :
          /\ returned[s] = << >> => Dataset(session_state[s]) = EmptyMap
          /\ returned[s] # << >> =>
               /\ {"generated_data", "data_type", "vm_metrics_data", "app_logs_data"}
                    \subseteq DOMAIN session_state[s]
               /\ session_state[s]["vm_metrics_data"]
                    = returned[s][Len(returned[s])].vm_metrics_df
               /\ session_state[s]["app_logs_data"]
                    = returned[s][Len(returned[s])].app_logs_df
               /\ session_state[s]["generated_data"]
                    = returned[s][Len(returned[s])].vm_metrics_df
               /\ session_state[s]["data_type"] = "Correlated VM Data"
               /\ pc[s] = "idle" =>
                    Exported(s) = {returned[s][Len(returned[s])].vm_metrics_df})

\* The first call returned a table, the second raised, and the display section
\* after it has made the download file of the table of the first.
C30_Witness ==
  \E s \in Sessions :
    /\ pc[s] = "idle"
    /\ runs[s] = 2
    /\ failed[s] = << 2 >>
    /\ Len(returned[s]) = 1
    /\ Len(session_state[s]["generated_data"]) >= 1
    /\ session_state[s]["generated_data"] = returned[s][1].vm_metrics_df
    /\ Exported(s) = {returned[s][1].vm_metrics_df}

====
